---- MODULE Spec2Model ----
(***************************************************************************)
(* systat: the interactive dashboard (bubbletea model/Update/View).        *)
(*                                                                         *)
(* Two dashboards of the repository are modelled over the same fields:     *)
(*   Spec      cmd/network_linux.go: Update hands the stat refresh to a    *)
(*             command closure (updateStats) and launches DNS/ping probes; *)
(*             it has the network-detail view and the health-check list.   *)
(*   SpecSync  cmd/dashboard.go (first dashboard): the tick handler calls  *)
(*             the stat adapters itself.                                   *)
(*                                                                         *)
(* Percentages are integers in hundredths of a percent (12.5% = 1250);     *)
(* a rendered "%.1f%%" cell is the integer number of tenths.  A Go pointer *)
(* is a sequence: <<>> is nil, <<v>> points to v.  A Go map is a function  *)
(* whose DOMAIN is its key set.                                            *)
(***************************************************************************)
EXTENDS Integers, Sequences, FiniteSets, TLC

\* ---------------------------------------------------------------- bounds
MaxTicks == 2
MaxFail == 1
MaxTabs == 4
MaxClosures == 1
MaxInflight == 2
MaxRuns == 5
MaxProcs == 22

\* ------------------------------------------------------- program constants
cpuTableFocus == 0
diskTableFocus == 1
netTableFocus == 2
dashboardView == 0
networkDetailView == 1

Nil == <<>>
Ptr(v) == <<v>>

\* hosts probed by Init and by every tick
DnsHosts == {"runtime.uds.dev", "keycloak.admin.uds.dev"}
PingHosts == {"10.0.0.1"}
Probes == [kind : {"dns"}, host : DnsHosts] \cup [kind : {"ping"}, host : PingHosts]

\* ------------------------------------------- what the collaborators return
\* cpu.Percent: one value per logical core
CpuReadings == {<<1250, 4000>>}
LoadReadings == {[Load1 |-> 150, Load5 |-> 120, Load15 |-> 100]}
\* mem.VirtualMemory / mem.SwapMemory (sizes in MiB)
MemReadings == {[Used |-> 4096, Total |-> 16384, UsedPercent |-> 2500]}
SwapReadings == {[Used |-> 0, Total |-> 2048, UsedPercent |-> 0]}
\* disk.IOCounters: device -> read count
DiskIOReadings == {[d \in {"sda"} |-> 7]}
\* disk.Partitions: the mount points, in order
Mounts == {"/", "/mnt/broken"}
PartitionReadings == {<<"/", "/mnt/broken">>}
DeviceOf(mp) == IF mp = "/" THEN "sda1" ELSE "sdb1"
\* disk.Usage of one mount point
UsageReadings == {[Used |-> 500, Total |-> 1000, UsedPercent |-> 5004]}
\* psnet.IOCounters(false): the counters, by name; net.Interfaces(): the names
NetReadings == {<<[Name |-> "all", BytesRecv |-> 10, BytesSent |-> 20],
                  [Name |-> "eth0", BytesRecv |-> 1, BytesSent |-> 2]>>}
InterfaceReadings == {<<>>, <<"all", "eth0">>}
\* terminal sizes a resize can report
WindowSizes == {<<100, 30>>}
\* key strings (msg.String())
NavKeys == {"up", "down", "pageup", "pagedown", "home", "end"}
Keys == {"q", "ctrl+c", "esc", "enter", "tab", "x"} \cup NavKeys

\* the adapters whose result goes to a plain field of the model
FieldAdapters == {"cpu", "load", "mem", "swap", "diskio", "partitions"}
\* inside the updateStats closure only the partitions adapter reaches state
\* that outlives the closure, so its failure is the one enumerated there
BoxFailSets == {{}, {"partitions"}}

\* ------------------------------------------------------------ Go helpers
Min(a, b) == IF a < b THEN a ELSE b
Max(a, b) == IF a > b THEN a ELSE b
\* a write that drops every other entry of the map
MapPutAlone(m, k, v) == [x \in {k} |-> v]
MapPut(m, k, v) == [x \in (DOMAIN m) \cup {k} |-> IF x = k THEN v ELSE m[x]]
EmptyMap == [x \in {} |-> 0]

\* fmt.Sprintf("%.1f%%", p): p in hundredths, the cell in tenths, to nearest
Fmt1(p) == (p + 5) \div 10
\* fmt.Sscanf(cell, "%f", &v) of such a cell: the value in hundredths
Scan1(cell) == cell * 10
\* humanize.Bytes of a size in MiB: below 1000 as is, else in tenths of GB
HumanBytes(b) == IF b < 1000 THEN <<b, "MB">> ELSE <<(b * 10) \div 1000, "dGB">>

\* ------------------------------------------------ bubbles/table as used
\* table.New(...): no rows, cursor 0, focus as given by WithFocused
NewTable(focused) == [rows |-> <<>>, cursor |-> 0, focus |-> focused]
clamp(v, low, high) == Min(Max(v, low), high)
\* table.SetRows: replaces the rows and pulls a cursor past the end back
SetRows(t, r) ==
  [t EXCEPT !.rows = r,
            !.cursor = IF t.cursor > Len(r) - 1 THEN Len(r) - 1 ELSE t.cursor]
Focus(t) == [t EXCEPT !.focus = TRUE]
Blur(t) == [t EXCEPT !.focus = FALSE]
\* table.SelectedRow: nil when the cursor is outside the rows
SelectedRow(t) ==
  IF t.cursor < 0 \/ t.cursor >= Len(t.rows) THEN <<>> ELSE t.rows[t.cursor + 1]
\* table.Update(KeyMsg): an unfocused table ignores keys; the default key map
\* binds up/down/home/end (page keys are bound as "pgup"/"pgdown", so the
\* strings "pageup"/"pagedown" move nothing)
TableUpdate(t, key) ==
  IF ~t.focus THEN t
  ELSE LET n == Len(t.rows) IN
       CASE key = "up" -> [t EXCEPT !.cursor = clamp(t.cursor - 1, 0, n - 1)]
         [] key = "down" -> [t EXCEPT !.cursor = clamp(t.cursor + 1, 0, n - 1)]
         [] key = "home" -> [t EXCEPT !.cursor = clamp(0, 0, n - 1)]
         [] key = "end" -> [t EXCEPT !.cursor = clamp(t.cursor + n, 0, n - 1)]
         [] OTHER -> t

\* --------------------------------------------------------- updateTables
\* the rows of the CPU table: core index and rendered usage
CpuRows(percents) == [i \in 1..Len(percents) |-> <<i - 1, Fmt1(percents[i])>>]

\* the rows of the memory table
MemRows(vmem, sw) ==
  (IF vmem # Nil
     THEN <<(<<"RAM", HumanBytes(vmem[1].Used), HumanBytes(vmem[1].Total),
              Fmt1(vmem[1].UsedPercent)>>)>>
     ELSE <<>>)
  \o (IF sw # Nil
        THEN <<(<<"Swap", HumanBytes(sw[1].Used), HumanBytes(sw[1].Total),
                 Fmt1(sw[1].UsedPercent)>>)>>
        ELSE <<>>)

\* the disk rows before sorting: partitions that have a usage entry, in order
RECURSIVE DiskRowsUnsorted(_, _)
DiskRowsUnsorted(parts, usage) ==
  IF parts = <<>> THEN <<>>
  ELSE LET mp == Head(parts) IN
       (IF mp \in DOMAIN usage
          THEN <<(<<DeviceOf(mp), mp, HumanBytes(usage[mp].Used),
                   HumanBytes(usage[mp].Total), Fmt1(usage[mp].UsedPercent)>>)>>
          ELSE <<>>)
       \o DiskRowsUnsorted(Tail(parts), usage)

\* a comparison that sorts ascending
DiskLessAscending(a, b) == Scan1(a[5]) < Scan1(b[5])

\* the comparison handed to sort.Slice: by the parsed percentage cell, descending
DiskLess(a, b) == Scan1(a[5]) > Scan1(b[5])

\* sort.Slice on a short slice is an insertion sort
RECURSIVE InsertRow(_, _)
InsertRow(sorted, row) ==
  IF sorted = <<>> THEN <<row>>
  ELSE LET last == sorted[Len(sorted)] IN
       IF DiskLess(row, last)
         THEN InsertRow(SubSeq(sorted, 1, Len(sorted) - 1), row) \o <<last>>
         ELSE sorted \o <<row>>

RECURSIVE SortRows(_)
SortRows(rows) ==
  IF rows = <<>> THEN <<>>
  ELSE InsertRow(SortRows(SubSeq(rows, 1, Len(rows) - 1)), rows[Len(rows)])

DiskRows(parts, usage) == SortRows(DiskRowsUnsorted(parts, usage))

\* the network rows of network_linux.go: the interfaces net.Interfaces()
\* lists that have an entry in netStats
RECURSIVE NetRows(_, _)
NetRows(ifaces, stats) ==
  IF ifaces = <<>> THEN <<>>
  ELSE (IF Head(ifaces) \in DOMAIN stats
          THEN <<(<<stats[Head(ifaces)].Name,
                   HumanBytes(stats[Head(ifaces)].BytesRecv),
                   HumanBytes(stats[Head(ifaces)].BytesSent)>>)>>
          ELSE <<>>)
       \o NetRows(Tail(ifaces), stats)

getStatusSymbol(ok) == IF ok THEN "green" ELSE "red"
StatusRows(checks) ==
  [i \in 1..Len(checks) |-> <<checks[i].name, getStatusSymbol(checks[i].status)>>]

\* ------------------------------------------------------------------ state
VARIABLES
  \* the fields of the model the event loop holds
  cpuPercents, loadAvg, memory, swap, diskStats, diskPartitions,
  netInterfaces,   \* dashboard.go only
  diskUsage, netStats, statusChecks, width, height, lastUpdate,
  diskTable, cpuTable, memTable, netTable, statusTable,
  focusedTable, currentView, selectedIface,
  \* the runtime around it
  closures,   \* updateStats closures handed to the runtime and not yet returned
  inflight,   \* probe commands launched and not yet delivered, per probe
  timers,     \* armed tick timers
  program,    \* "running", "quit" (tea.Quit) or "crashed" (Go runtime fatal error)
  \* observers
  tabs,       \* tab keys handled in dashboard view so far
  stamp,      \* per adapter: the tick in which the value now held was fetched
  lastFailed, \* the adapters that failed in the latest tick
  lastFetched,\* what the adapters that succeeded in the latest tick returned
  lastUsage,  \* per partition of the latest tick: did disk.Usage succeed
  \* the one-shot commands (metrics, disk, process, network, k8s)
  command,    \* the command that runs, "" when the dashboard runs instead
  watchOutput,\* the --watch flag
  pc,         \* where the command stands: "show", "check", "sleep" in the
              \* watch loop, "prerun", "run", "exit" in main, "done" at the end
  result,     \* what RunE returned: Nil while it runs, <<e>> once it returned e
  runs,       \* calls of the show function so far
  successes,  \* calls of the show function that returned nil
  outputJSON, \* the --json flag
  rawOutput,  \* the --raw flag
  build,      \* the source file whose definition of the command is built
  env,        \* what the collaborators of this run return
  calls,      \* the collaborators the running show function has called, in
              \* order
  stdout,     \* what has been printed so far, in order
  stderr,     \* what the logger has written so far, in order
  exitCode    \* Nil while the process runs, <<c>> once it exited with c

fields == <<cpuPercents, loadAvg, memory, swap, diskStats, diskPartitions,
            netInterfaces>>
maps == <<diskUsage, netStats>>
tables == <<diskTable, cpuTable, memTable, netTable, statusTable>>
viewState == <<focusedTable, currentView, selectedIface>>
geometry == <<width, height>>
runtime == <<closures, inflight, timers, program>>
history == <<stamp, lastFailed, lastFetched, lastUsage>>
observers == <<tabs, history>>
process == <<outputJSON, rawOutput, build, env, calls, stdout, stderr,
             exitCode>>
cli == <<command, watchOutput, pc, result, runs, successes, process>>
vars == <<fields, maps, statusChecks, geometry, lastUpdate, tables, viewState,
          runtime, observers, cli>>

Adapters == FieldAdapters \cup {"net"}
NoHistory ==
  /\ stamp = [a \in Adapters |-> 0]
  /\ lastFailed = {}
  /\ lastFetched = [a \in {} |-> 0]
  /\ lastUsage = [mp \in {} |-> FALSE]

\* the dashboard command runs: no one-shot command does
NoCli ==
  /\ command = "" /\ watchOutput = FALSE /\ pc = "done" /\ result = Nil
  /\ runs = 0 /\ successes = 0
  /\ outputJSON = FALSE /\ rawOutput = FALSE /\ build = "" /\ env = Nil
  /\ calls = <<>> /\ stdout = <<>> /\ stderr = <<>> /\ exitCode = Nil

\* initialModel of network_linux.go, then Init's batch: one tick timer and
\* one probe per host
Init ==
  /\ cpuPercents = <<>> /\ loadAvg = Nil /\ memory = Nil /\ swap = Nil
  /\ diskStats = EmptyMap /\ diskPartitions = <<>> /\ netInterfaces = <<>>
  /\ diskUsage = EmptyMap /\ netStats = EmptyMap
  /\ statusChecks = <<>>
  /\ width = 0 /\ height = 0 /\ lastUpdate = 0
  /\ diskTable = NewTable(FALSE) /\ cpuTable = NewTable(TRUE)
  /\ memTable = NewTable(FALSE) /\ netTable = NewTable(FALSE)
  /\ statusTable = NewTable(FALSE)
  /\ focusedTable = cpuTableFocus /\ currentView = dashboardView
  /\ selectedIface = ""
  /\ closures = {}
  /\ inflight = [p \in Probes |-> 1]
  /\ timers = 1
  /\ program = "running"
  /\ tabs = 0
  /\ NoHistory
  /\ NoCli

\* ------------------------------------------------ Update: key messages
\* a tab that cycles over two tables only
TabFocusMod2(f) == (f + 1) % 2

\* "tab": the next focus
TabFocus(f) == (f + 1) % 3

\* a tab that focuses the new table and forgets to blur the others
TabSetFocusNoBlur(t, mine, f) == IF f = mine THEN Focus(t) ELSE t

\* "tab": the table named by the new focus is focused, the others blurred
TabSetFocus(t, mine, f) == IF f = mine THEN Focus(t) ELSE Blur(t)

\* an enter that does not look at the focus
EnterOpensDetailAnyFocus(focus, view, netT) ==
  view = dashboardView /\ Len(SelectedRow(netT)) > 0

\* "enter": the condition under which the detail view opens
EnterOpensDetail(focus, view, netT) ==
  focus = netTableFocus /\ view = dashboardView /\ Len(SelectedRow(netT)) > 0

\* an enter that always takes the name in the first row
EnterSelectedIfaceFirstRow(netT) == netT.rows[1][1]

\* "enter": the interface name captured, selectedRow[0]
EnterSelectedIface(netT) == SelectedRow(netT)[1]

\* "esc": the condition under which the dashboard comes back
EscClosesDetail(view) == view = networkDetailView

\* the process ends: its goroutines, probe commands and timers end with it
Exit ==
  /\ closures' = {}
  /\ inflight' = [p \in Probes |-> 0]
  /\ timers' = 0

\* a quit that is honoured in dashboard view only
KeyQuitDashboardOnly(k) ==
  /\ program = "running"
  /\ UNCHANGED cli
  /\ k \in {"q", "ctrl+c"} /\ currentView = dashboardView
  /\ program' = "quit" /\ Exit
  /\ UNCHANGED observers
  /\ UNCHANGED <<fields, maps, statusChecks, geometry, lastUpdate, tables,
                 viewState>>

\* "q", "ctrl+c": return m, tea.Quit
KeyQuit(k) ==
  /\ program = "running" /\ k \in {"q", "ctrl+c"}
  /\ UNCHANGED cli
  /\ program' = "quit" /\ Exit
  /\ UNCHANGED observers
  /\ UNCHANGED <<fields, maps, statusChecks, geometry, lastUpdate, tables,
                 viewState>>

\* an esc that opens the detail view when the dashboard is shown
KeyEscToggles ==
  /\ program = "running"
  /\ UNCHANGED cli
  /\ currentView' = IF EscClosesDetail(currentView) THEN dashboardView
                    ELSE networkDetailView
  /\ UNCHANGED observers
  /\ UNCHANGED <<fields, maps, statusChecks, geometry, lastUpdate, tables,
                 focusedTable, selectedIface, runtime>>

\* "esc": back to the dashboard from the detail view, else falls through
KeyEsc ==
  /\ program = "running"
  /\ UNCHANGED cli
  /\ currentView' = IF EscClosesDetail(currentView) THEN dashboardView
                    ELSE currentView
  /\ UNCHANGED observers
  /\ UNCHANGED <<fields, maps, statusChecks, geometry, lastUpdate, tables,
                 focusedTable, selectedIface, runtime>>

KeyEnter ==
  /\ program = "running"
  /\ UNCHANGED cli
  /\ IF EnterOpensDetail(focusedTable, currentView, netTable)
       THEN /\ selectedIface' = EnterSelectedIface(netTable)
            /\ currentView' = networkDetailView
       ELSE UNCHANGED <<selectedIface, currentView>>
  /\ UNCHANGED observers
  /\ UNCHANGED <<fields, maps, statusChecks, geometry, lastUpdate, tables,
                 focusedTable, runtime>>

\* a tab that moves the focus in the detail view as well
KeyTabIgnoresView ==
  /\ program = "running" /\ tabs < MaxTabs
  /\ UNCHANGED cli
  /\ LET f == TabFocus(focusedTable) IN
       /\ focusedTable' = f
       /\ cpuTable' = TabSetFocus(cpuTable, cpuTableFocus, f)
       /\ diskTable' = TabSetFocus(diskTable, diskTableFocus, f)
       /\ netTable' = TabSetFocus(netTable, netTableFocus, f)
       /\ tabs' = tabs + 1
  /\ UNCHANGED history
  /\ UNCHANGED <<fields, maps, statusChecks, geometry, lastUpdate, memTable,
                 statusTable, currentView, selectedIface, runtime>>

\* "tab": in dashboard view the focus moves on, in detail view nothing
KeyTab ==
  /\ program = "running" /\ tabs < MaxTabs
  /\ UNCHANGED cli
  /\ IF currentView = dashboardView
       THEN LET f == TabFocus(focusedTable) IN
            /\ focusedTable' = f
            /\ cpuTable' = TabSetFocus(cpuTable, cpuTableFocus, f)
            /\ diskTable' = TabSetFocus(diskTable, diskTableFocus, f)
            /\ netTable' = TabSetFocus(netTable, netTableFocus, f)
            /\ tabs' = tabs + 1
       ELSE UNCHANGED <<focusedTable, cpuTable, diskTable, netTable, tabs>>
  /\ UNCHANGED history
  /\ UNCHANGED <<fields, maps, statusChecks, geometry, lastUpdate, memTable,
                 statusTable, currentView, selectedIface, runtime>>

\* navigation keys that reach the focused table in the detail view as well
KeyNavIgnoresView(k) ==
  /\ program = "running"
  /\ UNCHANGED cli
  /\ k \in NavKeys
  /\ cpuTable' = IF focusedTable = cpuTableFocus
                   THEN TableUpdate(cpuTable, k) ELSE cpuTable
  /\ diskTable' = IF focusedTable = diskTableFocus
                    THEN TableUpdate(diskTable, k) ELSE diskTable
  /\ netTable' = IF focusedTable = netTableFocus
                   THEN TableUpdate(netTable, k) ELSE netTable
  /\ UNCHANGED observers
  /\ UNCHANGED <<fields, maps, statusChecks, geometry, lastUpdate, memTable,
                 statusTable, viewState, runtime>>

\* "up", "down", "pageup", "pagedown", "home", "end": to the focused table
KeyNav(k) ==
  /\ program = "running" /\ k \in NavKeys
  /\ UNCHANGED cli
  /\ IF currentView = dashboardView
       THEN /\ cpuTable' = IF focusedTable = cpuTableFocus
                             THEN TableUpdate(cpuTable, k) ELSE cpuTable
            /\ diskTable' = IF focusedTable = diskTableFocus
                              THEN TableUpdate(diskTable, k) ELSE diskTable
            /\ netTable' = IF focusedTable = netTableFocus
                             THEN TableUpdate(netTable, k) ELSE netTable
       ELSE UNCHANGED <<cpuTable, diskTable, netTable>>
  /\ UNCHANGED observers
  /\ UNCHANGED <<fields, maps, statusChecks, geometry, lastUpdate, memTable,
                 statusTable, viewState, runtime>>

\* any other key falls through to "return m, nil"
KeyOther(k) ==
  /\ program = "running"
  /\ UNCHANGED cli
  /\ k \in Keys \ ({"q", "ctrl+c", "esc", "enter", "tab"} \cup NavKeys)
  /\ UNCHANGED observers
  /\ UNCHANGED <<fields, maps, statusChecks, geometry, lastUpdate, tables,
                 viewState, runtime>>

\* a resize that also puts the focus back on the CPU table
WindowSizeMsgResetsFocus(w, h) ==
  /\ program = "running"
  /\ UNCHANGED cli
  /\ width' = w /\ height' = h
  /\ focusedTable' = cpuTableFocus
  /\ UNCHANGED observers
  /\ UNCHANGED <<fields, maps, statusChecks, lastUpdate, tables, currentView,
                 selectedIface, runtime>>

\* tea.WindowSizeMsg
WindowSizeMsg(w, h) ==
  /\ program = "running"
  /\ UNCHANGED cli
  /\ width' = w /\ height' = h
  /\ UNCHANGED observers
  /\ UNCHANGED <<fields, maps, statusChecks, lastUpdate, tables, viewState,
                 runtime>>

\* ------------------------------------- Update: tick and probe messages
\* the closure updateStats returns: it holds a pointer to Update's own copy
\* of the model (box), which no one else holds once Update has returned
NewClosure(id) ==
  [id |-> id, pc |-> "stats",
   box |-> [cpuPercents |-> cpuPercents, loadAvg |-> loadAvg, memory |-> memory,
            swap |-> swap, diskStats |-> diskStats,
            diskPartitions |-> diskPartitions],
   failed |-> {}, todo |-> <<>>, iostats |-> <<>>, rows |-> Nil]

\* a tick that arms no next tick
TickRearmNone(t) == t - 1

\* the tick that was delivered is gone; tickCmd() in the batch arms the next
TickRearm(t) == (t - 1) + 1

\* a tick that launches the DNS probes only
TickProbesDnsOnly(fl) ==
  [p \in Probes |-> IF p.kind = "dns" THEN fl[p] + 1 ELSE fl[p]]

\* checkDNSCmd for both hosts and checkPingCmd in the batch: one more probe
\* of each in flight, whatever is still in flight
TickProbes(fl) == [p \in Probes |-> fl[p] + 1]

\* tickMsg: the batch of updateStats, the next tick and the three probes
TickMsg ==
  /\ program = "running" /\ timers > 0 /\ lastUpdate < MaxTicks
  /\ UNCHANGED cli
  /\ \A p \in Probes : inflight[p] < MaxInflight
  /\ Cardinality(closures) < MaxClosures
  /\ lastUpdate' = lastUpdate + 1
  /\ closures' = closures \cup {NewClosure(lastUpdate + 1)}
  /\ timers' = TickRearm(timers)
  /\ inflight' = TickProbes(inflight)
  /\ UNCHANGED observers
  /\ UNCHANGED <<fields, maps, statusChecks, geometry, tables, viewState, program>>

\* the first check with that name takes the status
SetStatus(checks, name, status) ==
  LET hits == {i \in 1..Len(checks) : checks[i].name = name} IN
  IF hits = {} THEN checks
  ELSE LET i == CHOOSE j \in hits : \A k \in hits : j <= k IN
       [checks EXCEPT ![i].status = status]

\* m.updateTables() on the model Update returns; ifaces is what
\* net.Interfaces() lists at that moment
UpdateTables(ifaces) ==
  /\ cpuTable' = SetRows(cpuTable, CpuRows(cpuPercents))
  /\ memTable' = SetRows(memTable, MemRows(memory, swap))
  /\ diskTable' = SetRows(diskTable, DiskRows(diskPartitions, diskUsage))
  /\ netTable' = SetRows(netTable, NetRows(ifaces, netStats))
  /\ statusTable' = SetRows(statusTable, StatusRows(statusChecks'))

DnsCheckMsg(host, status, ifaces) ==
  /\ program = "running"
  /\ UNCHANGED cli
  /\ inflight[[kind |-> "dns", host |-> host]] > 0
  /\ inflight' = [inflight EXCEPT ![[kind |-> "dns", host |-> host]] = @ - 1]
  /\ statusChecks' = SetStatus(statusChecks, host, status)
  /\ UpdateTables(ifaces)
  /\ UNCHANGED observers
  /\ UNCHANGED <<fields, maps, geometry, lastUpdate, viewState, closures,
                 timers, program>>

PingCheckMsg(host, status, ifaces) ==
  /\ program = "running"
  /\ UNCHANGED cli
  /\ inflight[[kind |-> "ping", host |-> host]] > 0
  /\ inflight' = [inflight EXCEPT ![[kind |-> "ping", host |-> host]] = @ - 1]
  /\ statusChecks' = SetStatus(statusChecks, "ping " \o host, status)
  /\ UpdateTables(ifaces)
  /\ UNCHANGED observers
  /\ UNCHANGED <<fields, maps, geometry, lastUpdate, viewState, closures,
                 timers, program>>

\* ------------------------------- the updateStats closure, run off the loop
Replace(c, d) == closures' = (closures \ {c}) \cup {d}

\* cpu, load, memory, swap, disk I/O and partitions: each stored in the box
\* when its adapter succeeds, left alone when it fails
StatsFetch(c, failed, cpu, ld, vmem, sw, io, parts) ==
  /\ program = "running" /\ c \in closures /\ c.pc = "stats"
  /\ UNCHANGED cli
  /\ LET b == c.box
         nb == [cpuPercents |-> IF "cpu" \in failed THEN b.cpuPercents ELSE cpu,
                loadAvg |-> IF "load" \in failed THEN b.loadAvg ELSE Ptr(ld),
                memory |-> IF "mem" \in failed THEN b.memory ELSE Ptr(vmem),
                swap |-> IF "swap" \in failed THEN b.swap ELSE Ptr(sw),
                diskStats |-> IF "diskio" \in failed THEN b.diskStats ELSE io,
                diskPartitions |-> IF "partitions" \in failed
                                     THEN b.diskPartitions ELSE parts]
         todo == IF "partitions" \in failed THEN <<>> ELSE parts
     IN Replace(c, [c EXCEPT !.box = nb, !.failed = failed, !.todo = todo,
                             !.pc = IF todo = <<>> THEN "net" ELSE "usage"])
  /\ UNCHANGED <<fields, maps, statusChecks, geometry, lastUpdate, tables,
                 viewState, inflight, timers, program, observers>>

\* disk.Usage of the next partition: on success a write to the diskUsage map,
\* which is the map the event loop's model holds
UsageStep(c, ok, usage) ==
  /\ program = "running" /\ c \in closures /\ c.pc = "usage"
  /\ UNCHANGED cli
  /\ diskUsage' = IF ok THEN MapPut(diskUsage, Head(c.todo), usage) ELSE diskUsage
  /\ Replace(c, [c EXCEPT !.todo = Tail(c.todo),
                          !.pc = IF Tail(c.todo) = <<>> THEN "net" ELSE "usage"])
  /\ UNCHANGED <<fields, netStats, statusChecks, geometry, lastUpdate, tables,
                 viewState, inflight, timers, program, observers>>

\* psnet.IOCounters(false)
NetFetch(c, ok, stats) ==
  /\ program = "running" /\ c \in closures /\ c.pc = "net"
  /\ UNCHANGED cli
  /\ Replace(c, IF ok THEN [c EXCEPT !.iostats = stats, !.pc = "netw"]
                      ELSE [c EXCEPT !.pc = "tables"])
  /\ UNCHANGED <<fields, maps, statusChecks, geometry, lastUpdate, tables,
                 viewState, inflight, timers, program, observers>>

\* m.netStats[stat.Name] = stat, again on the map the event loop holds
NetWrite(c) ==
  /\ program = "running" /\ c \in closures /\ c.pc = "netw"
  /\ UNCHANGED cli
  /\ netStats' = MapPut(netStats, Head(c.iostats).Name, Head(c.iostats))
  /\ Replace(c, [c EXCEPT !.iostats = Tail(c.iostats),
                          !.pc = IF Tail(c.iostats) = <<>> THEN "tables" ELSE "netw"])
  /\ UNCHANGED <<fields, diskUsage, statusChecks, geometry, lastUpdate, tables,
                 viewState, inflight, timers, program, observers>>

\* the rows m.updateTables() computes inside the closure
BoxRows(c, ifaces) ==
  [cpu |-> CpuRows(c.box.cpuPercents),
   mem |-> MemRows(c.box.memory, c.box.swap),
   disk |-> DiskRows(c.box.diskPartitions, diskUsage),
   net |-> NetRows(ifaces, netStats),
   status |-> StatusRows(statusChecks)]

\* m.updateTables() inside the closure reads the two maps; its rows go to the
\* tables of the box
BoxTables(c, ifaces) ==
  /\ program = "running" /\ c \in closures /\ c.pc = "tables"
  /\ UNCHANGED cli
  /\ Replace(c, [c EXCEPT !.rows = Ptr(BoxRows(c, ifaces)), !.pc = "ret"])
  /\ UNCHANGED <<fields, maps, statusChecks, geometry, lastUpdate, tables,
                 viewState, inflight, timers, program, observers>>

\* "return nil": the runtime delivers no message for it and drops the closure
ReturnNil(c) ==
  /\ program = "running" /\ c \in closures /\ c.pc = "ret"
  /\ UNCHANGED cli
  /\ closures' = closures \ {c}
  /\ UNCHANGED <<fields, maps, statusChecks, geometry, lastUpdate, tables,
                 viewState, inflight, timers, program, observers>>

\* who touches the two shared maps
MapWriter(c) == c.pc \in {"usage", "netw"}
MapReader(c) == c.pc = "tables"
LoopReadsMaps ==
  \/ \E p \in Probes : inflight[p] > 0      \* updateTables in the probe handlers
  \/ currentView = networkDetailView        \* networkDetailView reads netStats

\* a map write concurrent with another access of the map is a data race; the
\* Go runtime may stop the program with "concurrent map read and map write"
\* or "concurrent map writes"
ConcurrentMapAccess ==
  /\ program = "running"
  /\ UNCHANGED cli
  /\ \E c \in closures :
       /\ MapWriter(c)
       /\ \/ LoopReadsMaps
          \/ \E d \in closures \ {c} : MapWriter(d) \/ MapReader(d)
  /\ program' = "crashed" /\ Exit
  /\ UNCHANGED <<fields, maps, statusChecks, geometry, lastUpdate, tables,
                 viewState, observers>>

Next ==
  \/ \E k \in Keys : KeyQuit(k)
  \/ KeyEsc
  \/ KeyEnter
  \/ KeyTab
  \/ \E k \in Keys : KeyNav(k)
  \/ \E k \in Keys : KeyOther(k)
  \/ \E ws \in WindowSizes : WindowSizeMsg(ws[1], ws[2])
  \/ TickMsg
  \/ \E h \in DnsHosts, st \in BOOLEAN, ifs \in InterfaceReadings :
       DnsCheckMsg(h, st, ifs)
  \/ \E h \in PingHosts, st \in BOOLEAN, ifs \in InterfaceReadings :
       PingCheckMsg(h, st, ifs)
  \/ \E c \in closures, failed \in BoxFailSets, cpu \in CpuReadings,
        ld \in LoadReadings, vmem \in MemReadings, sw \in SwapReadings,
        io \in DiskIOReadings, parts \in PartitionReadings :
       StatsFetch(c, failed, cpu, ld, vmem, sw, io, parts)
  \/ \E c \in closures, ok \in BOOLEAN, usage \in UsageReadings :
       UsageStep(c, ok, usage)
  \/ \E c \in closures, ok \in BOOLEAN, stats \in NetReadings : NetFetch(c, ok, stats)
  \/ \E c \in closures : NetWrite(c)
  \/ \E c \in closures, ifs \in InterfaceReadings : BoxTables(c, ifs)
  \/ \E c \in closures : ReturnNil(c)
  \/ ConcurrentMapAccess

Spec == Init /\ [][Next]_vars

\* ======================================================= cmd/dashboard.go
\* what the collaborators of the first dashboard return
SyncPartitionReadings == {<<"/", "/mnt/broken">>}
Usage50 == [Used |-> 500, Total |-> 1000, UsedPercent |-> 5004]
Usage90 == [Used |-> 900, Total |-> 1000, UsedPercent |-> 9000]
\* disk.Usage per mount point: nil for an error
UsageResults ==
  {[mp \in Mounts |-> IF mp = "/" THEN Ptr(Usage50) ELSE Ptr(Usage90)],
   [mp \in Mounts |-> IF mp = "/" THEN Ptr(Usage50) ELSE Nil],
   [mp \in Mounts |-> IF mp = "/" THEN Nil ELSE Ptr(Usage90)]}
\* netlink.LinkList: links, some without statistics
LinkReadings ==
  {<<[Name |-> "lo", Statistics |-> Ptr([RxBytes |-> 5, TxBytes |-> 5])],
     [Name |-> "eth0", Statistics |-> Nil]>>,
   <<[Name |-> "eth0", Statistics |-> Ptr([RxBytes |-> 1, TxBytes |-> 2])]>>}
\* terminal sizes around the layout threshold
SyncWindowSizes == WindowSizes \cup {<<169, 40>>, <<170, 40>>}
SyncFailSets == {F \in SUBSET Adapters : Cardinality(F) <= MaxFail}

\* initialModel of dashboard.go, then Init: one tick timer
SyncInit ==
  /\ cpuPercents = <<>> /\ loadAvg = Nil /\ memory = Nil /\ swap = Nil
  /\ diskStats = EmptyMap /\ diskPartitions = <<>> /\ netInterfaces = <<>>
  /\ diskUsage = EmptyMap /\ netStats = EmptyMap
  /\ statusChecks = <<>>
  /\ width = 0 /\ height = 0 /\ lastUpdate = 0
  /\ diskTable = NewTable(FALSE) /\ cpuTable = NewTable(TRUE)
  /\ memTable = NewTable(FALSE) /\ netTable = NewTable(FALSE)
  /\ statusTable = NewTable(FALSE)
  /\ focusedTable = cpuTableFocus /\ currentView = dashboardView
  /\ selectedIface = ""
  /\ closures = {}
  /\ inflight = [p \in Probes |-> 0]
  /\ timers = 1
  /\ program = "running"
  /\ tabs = 0
  /\ NoHistory
  /\ NoCli

\* the fields dashboard.go's model does not have
asyncOnly == <<statusChecks, statusTable, currentView, selectedIface, closures,
               inflight>>

SyncKeyQuit(k) ==
  /\ program = "running" /\ k \in {"q", "ctrl+c"}
  /\ UNCHANGED cli
  /\ program' = "quit" /\ timers' = 0
  /\ UNCHANGED <<fields, maps, geometry, lastUpdate, diskTable, cpuTable,
                 memTable, netTable, focusedTable, asyncOnly, observers>>

\* "tab": the next focus; the newly focused table gets its own rows set again
SyncTabTable(t, mine, f) == IF f = mine THEN Focus(SetRows(t, t.rows)) ELSE Blur(t)

SyncKeyTab ==
  /\ program = "running" /\ tabs < MaxTabs
  /\ UNCHANGED cli
  /\ LET f == (focusedTable + 1) % 3 IN
     /\ focusedTable' = f
     /\ cpuTable' = SyncTabTable(cpuTable, cpuTableFocus, f)
     /\ diskTable' = SyncTabTable(diskTable, diskTableFocus, f)
     /\ netTable' = SyncTabTable(netTable, netTableFocus, f)
  /\ tabs' = tabs + 1
  /\ UNCHANGED <<fields, maps, geometry, lastUpdate, memTable, timers, program,
                 asyncOnly, history>>

SyncKeyNav(k) ==
  /\ program = "running" /\ k \in NavKeys
  /\ UNCHANGED cli
  /\ cpuTable' = IF focusedTable = cpuTableFocus
                   THEN TableUpdate(cpuTable, k) ELSE cpuTable
  /\ diskTable' = IF focusedTable = diskTableFocus
                    THEN TableUpdate(diskTable, k) ELSE diskTable
  /\ netTable' = IF focusedTable = netTableFocus
                   THEN TableUpdate(netTable, k) ELSE netTable
  /\ UNCHANGED <<fields, maps, geometry, lastUpdate, memTable, focusedTable,
                 timers, program, asyncOnly, observers>>

SyncKeyOther(k) ==
  /\ program = "running"
  /\ UNCHANGED cli
  /\ k \in Keys \ ({"q", "ctrl+c", "tab"} \cup NavKeys)
  /\ UNCHANGED vars

SyncWindowSizeMsg(w, h) ==
  /\ program = "running"
  /\ UNCHANGED cli
  /\ width' = w /\ height' = h
  /\ UNCHANGED <<fields, maps, lastUpdate, diskTable, cpuTable, memTable,
                 netTable, focusedTable, timers, program, asyncOnly, observers>>

\* m.diskUsage[mp] = usage for every partition whose disk.Usage succeeded
RECURSIVE StoreUsage(_, _, _)
StoreUsage(usage, parts, res) ==
  IF parts = <<>> THEN usage
  ELSE StoreUsage(IF res[Head(parts)] # Nil
                    THEN MapPut(usage, Head(parts), res[Head(parts)][1])
                    ELSE usage,
                  Tail(parts), res)

\* the fresh map of the links that carry statistics
RECURSIVE LinkStats(_)
LinkStats(links) ==
  IF links = <<>> THEN EmptyMap
  ELSE LET l == links[Len(links)]
           rest == LinkStats(SubSeq(links, 1, Len(links) - 1))
       IN IF l.Statistics # Nil THEN MapPut(rest, l.Name, l.Statistics[1]) ELSE rest

\* the network rows of dashboard.go: the links that have an entry in netStats
RECURSIVE SyncNetRows(_, _)
SyncNetRows(links, stats) ==
  IF links = <<>> THEN <<>>
  ELSE LET n == Head(links).Name IN
       (IF n \in DOMAIN stats
          THEN <<(<<n, HumanBytes(stats[n].RxBytes), HumanBytes(stats[n].TxBytes),
                   HumanBytes(stats[n].RxBytes + stats[n].TxBytes)>>)>>
          ELSE <<>>)
       \o SyncNetRows(Tail(links), stats)

Range(q) == {q[i] : i \in 1..Len(q)}

\* tickMsg: every adapter is called in the handler, then updateTables, then
\* the next tick is armed
SyncTickMsg(failed, cpu, ld, vmem, sw, io, parts, res, links) ==
  /\ program = "running" /\ timers > 0 /\ lastUpdate < MaxTicks
  /\ UNCHANGED cli
  /\ lastUpdate' = lastUpdate + 1
  /\ cpuPercents' = IF "cpu" \in failed THEN cpuPercents ELSE cpu
  /\ loadAvg' = IF "load" \in failed THEN loadAvg ELSE Ptr(ld)
  /\ memory' = IF "mem" \in failed THEN memory ELSE Ptr(vmem)
  /\ swap' = IF "swap" \in failed THEN swap ELSE Ptr(sw)
  /\ diskStats' = IF "diskio" \in failed THEN diskStats ELSE io
  /\ diskPartitions' = IF "partitions" \in failed THEN diskPartitions ELSE parts
  /\ diskUsage' = IF "partitions" \in failed THEN diskUsage
                  ELSE StoreUsage(diskUsage, parts, res)
  /\ netInterfaces' = IF "net" \in failed THEN netInterfaces ELSE links
  /\ netStats' = IF "net" \in failed THEN netStats ELSE LinkStats(links)
  /\ cpuTable' = SetRows(cpuTable, CpuRows(cpuPercents'))
  /\ memTable' = SetRows(memTable, MemRows(memory', swap'))
  /\ diskTable' = SetRows(diskTable, DiskRows(diskPartitions', diskUsage'))
  /\ netTable' = SetRows(netTable, SyncNetRows(netInterfaces', netStats'))
  /\ timers' = TickRearm(timers)
  /\ stamp' = [a \in Adapters |-> IF a \in failed THEN stamp[a] ELSE lastUpdate']
  /\ lastFailed' = failed
  /\ lastFetched' = [a \in Adapters \ failed |->
                       CASE a = "cpu" -> cpu [] a = "load" -> Ptr(ld)
                         [] a = "mem" -> Ptr(vmem) [] a = "swap" -> Ptr(sw)
                         [] a = "diskio" -> io [] a = "partitions" -> parts
                         [] OTHER -> links]
  /\ lastUsage' = IF "partitions" \in failed THEN [mp \in {} |-> FALSE]
                  ELSE [mp \in Range(parts) |-> res[mp] # Nil]
  /\ UNCHANGED <<geometry, focusedTable, program, asyncOnly, tabs>>

SyncNext ==
  \/ \E k \in Keys : SyncKeyQuit(k)
  \/ SyncKeyTab
  \/ \E k \in Keys : SyncKeyNav(k)
  \/ \E k \in Keys : SyncKeyOther(k)
  \/ \E ws \in SyncWindowSizes : SyncWindowSizeMsg(ws[1], ws[2])
  \/ \E failed \in SyncFailSets, cpu \in CpuReadings, ld \in LoadReadings,
        vmem \in MemReadings, sw \in SwapReadings, io \in DiskIOReadings,
        parts \in SyncPartitionReadings, res \in UsageResults,
        links \in LinkReadings :
       SyncTickMsg(failed, cpu, ld, vmem, sw, io, parts, res, links)

SpecSync == SyncInit /\ [][SyncNext]_vars

\* ------------------------------------------------------------------ View
\* The arrangement View returns: the rows joined vertically, each row the
\* columns joined horizontally, each column the sections joined vertically;
\* styleWidth is the width of the base style.
minColumnWidth == 85
useVerticalLayout(w) == w < minColumnWidth * 2

\* View of network_linux.go: the width only chooses the base style's width
View ==
  IF width = 0 THEN [kind |-> "loading", rows |-> <<>>, styleWidth |-> 0]
  ELSE IF currentView = networkDetailView
    THEN [kind |-> "detail", rows |-> <<>>, styleWidth |-> 0]
  ELSE [kind |-> "dashboard",
        rows |-> << << <<"cpu">>, <<"disk", "mem">> >>,
                    << <<"net">>, <<"status">> >> >>,
        styleWidth |-> IF useVerticalLayout(width) THEN width - 2
                       ELSE (width \div 2) - 2]

\* View of dashboard.go: below the threshold the disk and network sections
\* go under the CPU/Memory row one by one, else side by side
SyncView ==
  IF width = 0 THEN [kind |-> "loading", rows |-> <<>>, styleWidth |-> 0]
  ELSE [kind |-> "dashboard",
        rows |-> IF useVerticalLayout(width)
                   THEN << << <<"cpu">>, <<"mem">> >>, << <<"disk">> >>,
                           << <<"net">> >> >>
                   ELSE << << <<"cpu">>, <<"mem">> >>,
                           << <<"disk">>, <<"net">> >> >>,
        styleWidth |-> IF useVerticalLayout(width) THEN width - 4
                       ELSE (width \div 2) - 4]

\* ============================ metrics, disk, process, network, k8s: RunE
\* the commands whose RunE is the show loop, and what a show function returns
Commands == {"metrics", "disk", "process", "network", "k8s"}
ShowResults == {"nil", "error"}

dashboard == <<fields, maps, statusChecks, geometry, lastUpdate, tables,
               viewState, runtime, observers>>

\* no dashboard program runs
NoDashboard ==
  /\ cpuPercents = <<>> /\ loadAvg = Nil /\ memory = Nil /\ swap = Nil
  /\ diskStats = EmptyMap /\ diskPartitions = <<>> /\ netInterfaces = <<>>
  /\ diskUsage = EmptyMap /\ netStats = EmptyMap
  /\ statusChecks = <<>>
  /\ width = 0 /\ height = 0 /\ lastUpdate = 0
  /\ diskTable = NewTable(FALSE) /\ cpuTable = NewTable(FALSE)
  /\ memTable = NewTable(FALSE) /\ netTable = NewTable(FALSE)
  /\ statusTable = NewTable(FALSE)
  /\ focusedTable = cpuTableFocus /\ currentView = dashboardView
  /\ selectedIface = ""
  /\ closures = {}
  /\ inflight = [p \in Probes |-> 0]
  /\ timers = 0
  /\ program = "none"
  /\ tabs = 0
  /\ NoHistory

\* cobra has parsed the flags and calls the command's RunE
WatchInit ==
  /\ NoDashboard
  /\ command \in Commands /\ watchOutput \in BOOLEAN
  /\ pc = "show" /\ result = Nil /\ runs = 0 /\ successes = 0
  /\ outputJSON = FALSE /\ rawOutput = FALSE /\ build = "" /\ env = Nil
  /\ calls = <<>> /\ stdout = <<>> /\ stderr = <<>> /\ exitCode = Nil

\* a loop that leaves after the first run whatever the flag
WatchBreaksAlways(w) == TRUE

\* if !watchOutput { break }
WatchBreaks(w) == ~w

\* if err := show...(logger); err != nil { return err }
WatchShow(r) ==
  /\ pc = "show" /\ runs < MaxRuns
  /\ runs' = runs + 1
  /\ IF r = "nil"
       THEN /\ successes' = successes + 1
            /\ pc' = "check"
            /\ UNCHANGED result
       ELSE /\ result' = Ptr(r)
            /\ pc' = "done"
            /\ UNCHANGED successes
  /\ UNCHANGED <<command, watchOutput, process, dashboard>>

\* the break out of the loop, then return nil
WatchCheck ==
  /\ pc = "check"
  /\ IF WatchBreaks(watchOutput)
       THEN pc' = "done" /\ result' = Ptr("nil")
       ELSE pc' = "sleep" /\ UNCHANGED result
  /\ UNCHANGED <<command, watchOutput, runs, successes, process,
               dashboard>>

\* time.Sleep(2 * time.Second) (metrics then clears the screen), and around
WatchSleep ==
  /\ pc = "sleep"
  /\ pc' = "show"
  /\ UNCHANGED <<command, watchOutput, result, runs, successes, process,
               dashboard>>

WatchNext ==
  \/ \E r \in ShowResults : WatchShow(r)
  \/ WatchCheck
  \/ WatchSleep

SpecWatch == WatchInit /\ [][WatchNext]_vars

\* ================================ main, rootCmd and the subcommands' flags
\* the subcommands the source registers, and the files that define each
Subcommands == Commands \cup {"sysinfo", "dashboard"}
Builds(c) ==
  CASE c = "sysinfo" -> {"sysinfo.go"}
    [] c = "metrics" -> {"metrics.go"}
    [] c = "disk" -> {"disk.go", "part_000"}
    [] c = "process" -> {"process.go", "dashboard.go"}
    [] c = "network" -> {"network_linux.go"}
    [] c = "k8s" -> {"network_linux.go"}
    [] c = "dashboard" -> {"dashboard.go", "network_linux.go"}

\* the commands that marshal a value: as JSON with --json, as YAML without
Marshals(c, b) ==
  \/ c \in {"sysinfo", "k8s"}
  \/ c = "disk" /\ b = "disk.go"
  \/ c = "process" /\ b = "process.go"

\* what one successful run of the command prints with these flags
Output(c, b, json, raw) ==
  [encoding |-> IF c = "dashboard" THEN "screen"
                ELSE IF ~Marshals(c, b) THEN "text"
                ELSE IF json THEN "json" ELSE "yaml",
   styled |-> IF c \in {"sysinfo", "dashboard"} THEN TRUE ELSE ~raw]

\* does the command hand the error of its body to cobra: the dashboard of
\* network_linux.go has Run, not RunE; it prints the error and returns
RunReturnsErr(c, b) == ~(c = "dashboard" /\ b = "network_linux.go")

\* cobra has parsed the arguments; env.level: does --level parse; env.fatal:
\* the run whose collaborators fail fatally (0: none)
MainInit ==
  /\ NoDashboard
  /\ command \in Subcommands /\ build \in Builds(command)
  /\ watchOutput \in BOOLEAN /\ outputJSON \in BOOLEAN
  /\ rawOutput \in BOOLEAN
  /\ env \in [level : BOOLEAN, fatal : 0..MaxRuns]
  /\ pc = "prerun" /\ result = Nil /\ runs = 0 /\ successes = 0
  /\ calls = <<>> /\ stdout = <<>> /\ stderr = <<>> /\ exitCode = Nil

\* rootCmd.PersistentPreRunE
PersistentPreRunE ==
  /\ pc = "prerun"
  /\ IF env.level
       THEN pc' = "run" /\ UNCHANGED result
       ELSE pc' = "exit" /\ result' = Ptr("error")
  /\ UNCHANGED <<command, watchOutput, runs, successes, outputJSON,
                 rawOutput, build, env, calls, stdout, stderr, exitCode,
                 dashboard>>

\* one pass through the body of the command's Run or RunE
RunCommand ==
  /\ pc = "run" /\ runs < MaxRuns
  /\ runs' = runs + 1
  /\ IF env.fatal = runs + 1
       THEN /\ pc' = "exit"
            /\ UNCHANGED successes
            /\ IF RunReturnsErr(command, build)
                 THEN result' = Ptr("error") /\ UNCHANGED stdout
                 ELSE /\ result' = Ptr("nil")
                      /\ stdout' = Append(stdout, "Error running program")
       ELSE /\ successes' = successes + 1
            /\ stdout' = Append(stdout,
                            Output(command, build, outputJSON, rawOutput))
            /\ IF command \in Commands /\ ~WatchBreaks(watchOutput)
                 THEN pc' = "run" /\ UNCHANGED result
                 ELSE pc' = "exit" /\ result' = Ptr("nil")
  /\ UNCHANGED <<command, watchOutput, outputJSON, rawOutput, build, env,
                 calls, stderr, exitCode, dashboard>>

\* main: if err != nil { logger.Print(""); logger.Error(err); os.Exit(1) }
MainExit ==
  /\ pc = "exit"
  /\ pc' = "done"
  /\ IF result = Ptr("error")
       THEN stderr' = stderr \o <<"", "error">> /\ exitCode' = Ptr(1)
       ELSE exitCode' = Ptr(0) /\ UNCHANGED stderr
  /\ UNCHANGED <<command, watchOutput, result, runs, successes, outputJSON,
                 rawOutput, build, env, calls, stdout, dashboard>>

MainNext == PersistentPreRunE \/ RunCommand \/ MainExit

SpecMain == MainInit /\ [][MainNext]_vars

\* ======================================================= k8s: showK8sInfo
\* the steps of showK8sInfo in the order of the code, and the prefix each
\* wraps the error of its collaborator in ("error": returned as it is)
K8sOrderPodsFirst ==
  <<"kubeconfig", "client", "pods", "nodes", "namespaces", "marshal",
    "print">>
K8sOrder ==
  <<"kubeconfig", "client", "nodes", "namespaces", "pods", "marshal",
    "print">>
K8sWrap ==
  [kubeconfig |-> "failed to get kubeconfig",
   client |-> "failed to create kubernetes client",
   nodes |-> "failed to get nodes",
   namespaces |-> "failed to get namespaces",
   pods |-> "failed to get pods",
   marshal |-> "failed to marshal kubernetes info",
   print |-> "error"]
K8sSteps == {K8sOrder[i] : i \in DOMAIN K8sOrder}

\* env: the steps whose collaborator returns an error when it is called
K8sInit ==
  /\ NoDashboard
  /\ command = "k8s" /\ build = "network_linux.go"
  /\ watchOutput \in BOOLEAN /\ outputJSON \in BOOLEAN
  /\ rawOutput \in BOOLEAN
  /\ env \in SUBSET K8sSteps
  /\ pc = "show" /\ result = Nil /\ runs = 0 /\ successes = 0
  /\ calls = <<>> /\ stdout = <<>> /\ stderr = <<>> /\ exitCode = Nil

\* does the step return an error: fmt.Println's is not looked at
K8sFails(step) ==
  step \in env /\ (step = "print" => ~rawOutput)

\* a step that goes on after an error
K8sReturnsNever(step) == FALSE

\* if err != nil { return fmt.Errorf("...: %w", err) }
K8sReturns(step) == K8sFails(step)

\* the i-th step of showK8sInfo; the first one starts a run, the last one
\* prints and returns nil
K8sStep(i) ==
  /\ i \in DOMAIN K8sOrder
  /\ IF i = 1 THEN pc = "show" /\ runs < MaxRuns ELSE pc = K8sOrder[i]
  /\ runs' = IF i = 1 THEN runs + 1 ELSE runs
  /\ calls' = IF i = 1 THEN <<K8sOrder[i]>> ELSE Append(calls, K8sOrder[i])
  /\ IF K8sReturns(K8sOrder[i])
       THEN /\ result' = Ptr(K8sWrap[K8sOrder[i]])
            /\ pc' = "done"
            /\ UNCHANGED <<stdout, successes>>
       ELSE /\ UNCHANGED result
            /\ IF i < Len(K8sOrder)
                 THEN pc' = K8sOrder[i + 1] /\ UNCHANGED <<stdout, successes>>
                 ELSE /\ pc' = "check"
                      /\ successes' = successes + 1
                      /\ stdout' = Append(stdout,
                                     Output(command, build, outputJSON,
                                            rawOutput))
  /\ UNCHANGED <<command, watchOutput, outputJSON, rawOutput, build, env,
                 stderr, exitCode, dashboard>>

K8sNext ==
  \/ \E i \in DOMAIN K8sOrder : K8sStep(i)
  \/ WatchCheck
  \/ WatchSleep

SpecK8s == K8sInit /\ [][K8sNext]_vars

\* ===================================================== disk: showDiskInfo
\* disk.Partitions: the mount points, in the order it returns them
DiskPartitions == <<"/", "/boot", "/mnt/broken">>

\* a printed line: what it is about, the mount point, and what it says
Line(kind, of, text) == [kind |-> kind, of |-> of, text |-> text]

\* the mount points whose disk.Usage succeeded, in partition order
UsageStats(parts, ok) == SelectSeq(parts, LAMBDA mp : mp \in ok)

\* disk.go: info["partitions"], info["usage"], info["io_counters"]
DiskDocument(parts, ok) ==
  [i \in 1..Len(parts) |-> Line("partition", parts[i], "listed")]
  \o [i \in 1..Len(UsageStats(parts, ok)) |->
        Line("usage", UsageStats(parts, ok)[i], "figures")]
  \o <<Line("io_counters", "", "listed")>>

\* part_000, table mode: one row per partition whose usage was read
DiskTableRows(parts, ok) ==
  [i \in 1..Len(UsageStats(parts, ok)) |->
     Line("usage", UsageStats(parts, ok)[i], "figures")]

\* part_000, showRawDiskInfo: device, mount point and type of every
\* partition, then its figures or "Usage: error: ..."
DiskRawLines(parts, ok) ==
  [j \in 1..(2 * Len(parts)) |->
     IF j % 2 = 1
       THEN Line("partition", parts[(j + 1) \div 2], "listed")
       ELSE Line("usage", parts[j \div 2],
                 IF parts[j \div 2] \in ok THEN "figures" ELSE "error")]

\* showDiskInfo of file b: what it prints and what it returns; e.partitions
\* and e.io: do disk.Partitions and disk.IOCounters succeed; e.usage: the
\* mount points whose disk.Usage succeeds
showDiskInfo(b, raw, e) ==
  IF ~e.partitions
    THEN [out |-> <<>>, err |-> "failed to get disk partitions"]
  ELSE IF b = "disk.go"
    THEN IF e.io
           THEN [out |-> DiskDocument(DiskPartitions, e.usage),
                 err |-> "nil"]
           ELSE [out |-> <<>>, err |-> "failed to get IO counters"]
  ELSE [out |-> (IF raw THEN DiskRawLines(DiskPartitions, e.usage)
                 ELSE DiskTableRows(DiskPartitions, e.usage))
                \o (IF e.io THEN <<Line("io_counters", "", "listed")>>
                    ELSE <<>>),
        err |-> IF e.io THEN "nil"
                ELSE "failed to get disk IO statistics"]

DiskInit ==
  /\ NoDashboard
  /\ command = "disk" /\ build \in Builds("disk")
  /\ watchOutput \in BOOLEAN /\ outputJSON \in BOOLEAN
  /\ rawOutput \in BOOLEAN
  /\ env \in [partitions : BOOLEAN, io : BOOLEAN,
              usage : SUBSET {DiskPartitions[i] : i \in DOMAIN DiskPartitions}]
  /\ pc = "show" /\ result = Nil /\ runs = 0 /\ successes = 0
  /\ calls = <<>> /\ stdout = <<>> /\ stderr = <<>> /\ exitCode = Nil

\* if err := showDiskInfo(logger); err != nil { return err }
DiskShow ==
  /\ pc = "show" /\ runs < MaxRuns
  /\ runs' = runs + 1
  /\ LET r == showDiskInfo(build, rawOutput, env) IN
       /\ stdout' = stdout \o r.out
       /\ IF r.err = "nil"
            THEN /\ successes' = successes + 1
                 /\ pc' = "check"
                 /\ UNCHANGED result
            ELSE /\ result' = Ptr(r.err)
                 /\ pc' = "done"
                 /\ UNCHANGED successes
  /\ UNCHANGED <<command, watchOutput, outputJSON, rawOutput, build, env,
                 calls, stderr, exitCode, dashboard>>

DiskNext == DiskShow \/ WatchCheck \/ WatchSleep

SpecDisk == DiskInit /\ [][DiskNext]_vars

\* ========================== process (dashboard.go): showProcessInfo, top 20
\* for _, p := range processes[:20]
TopProcesses == 20

\* process.Processes(): pid i with a CPU reading that rises with the pid,
\* falls with it, or is mixed with ties; CPUPercent is taken to return the
\* same reading in the comparison and in the row
CpuPatterns == {"rising", "falling", "mixed"}
CpuReading(f, i) ==
  CASE f = "rising" -> i
    [] f = "falling" -> 100 - i
    [] f = "mixed" -> (i * 7) % 10
ProcessLists ==
  {[i \in 1..n |-> [Pid |-> i, CPU |-> CpuReading(f, i)]] :
     n \in 0..MaxProcs, f \in CpuPatterns}

\* sort.Slice(processes, ...): cpu1 > cpu2
ProcessLess(a, b) == a.CPU > b.CPU

RECURSIVE InsertProcess(_, _)
InsertProcess(sorted, p) ==
  IF sorted = <<>> THEN <<p>>
  ELSE IF ProcessLess(p, Head(sorted)) THEN <<p>> \o sorted
  ELSE <<Head(sorted)>> \o InsertProcess(Tail(sorted), p)

RECURSIVE SortProcesses(_)
SortProcesses(ps) ==
  IF ps = <<>> THEN <<>>
  ELSE InsertProcess(SortProcesses(SubSeq(ps, 1, Len(ps) - 1)), ps[Len(ps)])

\* showProcessInfo and showRawProcessInfo of dashboard.go: what is printed
\* and how the call ends. processes[:20] of a shorter slice panics: with
\* "slice bounds out of range" when its capacity is below 20 too, else at
\* p.Pid of the first nil pointer beyond its length (raw mode has printed
\* the processes before it by then; table mode prints its rows after the
\* loop)
showProcessInfo(raw, e) ==
  LET sorted == SortProcesses(e.processes)
      title == <<"Top Processes by CPU Usage">>
  IN  IF ~e.ok THEN [out |-> <<>>, err |-> "failed to get process list"]
      ELSE IF Len(sorted) >= TopProcesses
        THEN [out |-> title \o SubSeq(sorted, 1, TopProcesses), err |-> "nil"]
      ELSE IF e.roomy
        THEN [out |-> title \o (IF raw THEN sorted ELSE <<>>),
              err |-> "panic: nil pointer dereference"]
      ELSE [out |-> title, err |-> "panic: slice bounds out of range"]

\* env.ok: does process.Processes() succeed; env.roomy: has the slice it
\* returns a capacity of 20 or more
ProcessInit ==
  /\ NoDashboard
  /\ command = "process" /\ build = "dashboard.go"
  /\ watchOutput \in BOOLEAN /\ outputJSON \in BOOLEAN
  /\ rawOutput \in BOOLEAN
  /\ env \in [processes : ProcessLists, ok : BOOLEAN, roomy : BOOLEAN]
  /\ pc = "show" /\ result = Nil /\ runs = 0 /\ successes = 0
  /\ calls = <<>> /\ stdout = <<>> /\ stderr = <<>> /\ exitCode = Nil

\* if err := showProcessInfo(logger); err != nil { return err }; a panic
\* ends the process with exit code 2
ProcessShow ==
  /\ pc = "show" /\ runs < MaxRuns
  /\ runs' = runs + 1
  /\ LET r == showProcessInfo(rawOutput, env) IN
       /\ stdout' = stdout \o r.out
       /\ IF r.err = "nil"
            THEN /\ successes' = successes + 1
                 /\ pc' = "check"
                 /\ UNCHANGED <<result, exitCode>>
            ELSE /\ result' = Ptr(r.err)
                 /\ pc' = "done"
                 /\ exitCode' = IF r.err = "failed to get process list"
                                  THEN exitCode ELSE Ptr(2)
                 /\ UNCHANGED successes
  /\ UNCHANGED <<command, watchOutput, outputJSON, rawOutput, build, env,
                 calls, stderr, dashboard>>

ProcessNext == ProcessShow \/ WatchCheck \/ WatchSleep

SpecProcess == ProcessInit /\ [][ProcessNext]_vars

\* ============================================== network: showNetworkInfo
\* netlink.LinkList(): the interfaces, in the order it returns them
NetLinks == <<"lo", "eth0">>

\* one row or block per interface: its addresses, or "error" when
\* netlink.AddrList failed for it
InterfaceLines(links, ok) ==
  [i \in 1..Len(links) |->
     Line("interface", links[i],
          IF links[i] \in ok THEN "addresses" ELSE "error")]

\* logger.Warn("failed to get addresses", ...) per interface, styled mode
AddrWarnings(links, ok) ==
  [i \in 1..Len(SelectSeq(links, LAMBDA l : l \notin ok)) |->
     "failed to get addresses"]

\* showRawNetworkInfo: a routing table that cannot be read is an error
showRawNetworkInfo(links, e) ==
  IF e.routes
    THEN [out |-> InterfaceLines(links, e.addrs)
                  \o <<Line("routes", "", "listed")>>,
          log |-> <<>>, err |-> "nil"]
    ELSE [out |-> InterfaceLines(links, e.addrs),
          log |-> <<>>, err |-> "failed to get routing table"]

\* showNetworkInfo: e.links and e.routes: do netlink.LinkList and
\* netlink.RouteList succeed; e.addrs: the interfaces whose netlink.AddrList
\* succeeds. In styled mode a routing table that cannot be read is a warning
\* and the call returns nil
showNetworkInfo(raw, e) ==
  IF ~e.links
    THEN [out |-> <<>>, log |-> <<>>,
          err |-> "failed to get network interfaces"]
  ELSE IF raw THEN showRawNetworkInfo(NetLinks, e)
  ELSE IF e.routes
    THEN [out |-> InterfaceLines(NetLinks, e.addrs)
                  \o <<Line("routes", "", "listed")>>,
          log |-> AddrWarnings(NetLinks, e.addrs), err |-> "nil"]
  ELSE [out |-> InterfaceLines(NetLinks, e.addrs),
        log |-> AddrWarnings(NetLinks, e.addrs)
                \o <<"failed to get routing table">>,
        err |-> "nil"]

NetworkInit ==
  /\ NoDashboard
  /\ command = "network" /\ build = "network_linux.go"
  /\ watchOutput \in BOOLEAN /\ outputJSON \in BOOLEAN
  /\ rawOutput \in BOOLEAN
  /\ env \in [links : BOOLEAN, routes : BOOLEAN,
              addrs : SUBSET {NetLinks[i] : i \in DOMAIN NetLinks}]
  /\ pc = "show" /\ result = Nil /\ runs = 0 /\ successes = 0
  /\ calls = <<>> /\ stdout = <<>> /\ stderr = <<>> /\ exitCode = Nil

\* if err := showNetworkInfo(logger); err != nil { return err }
NetworkShow ==
  /\ pc = "show" /\ runs < MaxRuns
  /\ runs' = runs + 1
  /\ LET r == showNetworkInfo(rawOutput, env) IN
       /\ stdout' = stdout \o r.out
       /\ stderr' = stderr \o r.log
       /\ IF r.err = "nil"
            THEN /\ successes' = successes + 1
                 /\ pc' = "check"
                 /\ UNCHANGED result
            ELSE /\ result' = Ptr(r.err)
                 /\ pc' = "done"
                 /\ UNCHANGED successes
  /\ UNCHANGED <<command, watchOutput, outputJSON, rawOutput, build, env,
                 calls, exitCode, dashboard>>

NetworkNext == NetworkShow \/ WatchCheck \/ WatchSleep

SpecNetwork == NetworkInit /\ [][NetworkNext]_vars

\* the steps in which the event loop runs Update
LoopStep ==
  \/ \E k \in Keys : KeyQuit(k) \/ KeyNav(k) \/ KeyOther(k)
  \/ KeyEsc \/ KeyEnter \/ KeyTab
  \/ \E ws \in WindowSizes : WindowSizeMsg(ws[1], ws[2])
  \/ TickMsg
  \/ \E h \in DnsHosts, st \in BOOLEAN, ifs \in InterfaceReadings :
       DnsCheckMsg(h, st, ifs)
  \/ \E h \in PingHosts, st \in BOOLEAN, ifs \in InterfaceReadings :
       PingCheckMsg(h, st, ifs)

\* ------------------------------------------------------------------ claims

\* C1: once the refresh of a tick has run with every adapter succeeding, the
\* model the event loop holds has cpuPercents, memory, swap, loadAvg and
\* diskPartitions equal to what the adapters returned in that refresh.
C1_TickPublishesStats ==
  \A c \in closures :
    (c.pc = "ret" /\ c.failed = {}) =>
      /\ cpuPercents = c.box.cpuPercents
      /\ memory = c.box.memory
      /\ swap = c.box.swap
      /\ loadAvg = c.box.loadAvg
      /\ diskPartitions = c.box.diskPartitions

\* C2: the snapshot the event loop reads (the plain fields and the diskUsage
\* and netStats maps) changes only in steps in which the loop runs Update.
C2_OnlyLoopWritesSnapshot ==
  [][(fields' # fields \/ maps' # maps) => LoopStep]_vars

\* the field of the model that holds an adapter's result, and its empty value
FieldOf(a) ==
  CASE a = "cpu" -> cpuPercents [] a = "load" -> loadAvg [] a = "mem" -> memory
    [] a = "swap" -> swap [] a = "diskio" -> diskStats
    [] a = "partitions" -> diskPartitions [] OTHER -> netInterfaces
EmptyOf(a) ==
  CASE a \in {"load", "mem", "swap"} -> Nil [] a = "diskio" -> EmptyMap
    [] OTHER -> <<>>

\* C3: after a tick, no field of the snapshot holds a value fetched in an
\* earlier tick: each holds what this tick's adapter call returned, or nothing
\* was ever fetched for it.
C3_NoCrossTickMixing ==
  \A a \in Adapters : stamp[a] \in {0, lastUpdate}

\* C4: after a tick in which exactly one adapter failed, that adapter's field
\* is empty and every other field holds the value fetched in that tick.
C4_FailureEmptiesOwnDomain ==
  Cardinality(lastFailed) = 1 =>
    \A a \in Adapters :
      IF a \in lastFailed THEN FieldOf(a) = EmptyOf(a)
      ELSE FieldOf(a) = lastFetched[a]

\* C5: a mount point whose disk.Usage failed in the latest tick has no entry
\* in diskUsage and no row in the disk table; one whose disk.Usage succeeded in
\* the latest tick has both.
HasDiskRow(mp) == \E i \in 1..Len(diskTable.rows) : diskTable.rows[i][2] = mp
C5_FailedMountExcluded ==
  \A mp \in DOMAIN lastUsage :
    IF lastUsage[mp] THEN mp \in DOMAIN diskUsage /\ HasDiskRow(mp)
    ELSE mp \notin DOMAIN diskUsage /\ ~HasDiskRow(mp)

\* C6: a failed DNS result for host h leaves an entry named h with status
\* false and every other entry as it was; a ping result for h changes no entry
\* but the one named "ping h".
OthersKept(name) ==
  /\ Len(statusChecks') = Len(statusChecks)
  /\ \A i \in 1..Len(statusChecks) :
       statusChecks[i].name # name => statusChecks'[i] = statusChecks[i]
C6_ProbeResultSetsOwnEntry ==
  [][/\ \A h \in DnsHosts, ifs \in InterfaceReadings :
          DnsCheckMsg(h, FALSE, ifs) =>
            /\ \E i \in 1..Len(statusChecks') :
                 statusChecks'[i].name = h /\ statusChecks'[i].status = FALSE
            /\ OthersKept(h)
     /\ \A h \in PingHosts, st \in BOOLEAN, ifs \in InterfaceReadings :
          PingCheckMsg(h, st, ifs) => OthersKept("ping " \o h)]_vars

\* C8: each tab key handled in dashboard view moves the focus one step along
\* CPU -> Disk -> Network -> CPU, so after any three of them the focus is back
\* where it was; focusedTable is always one of the three.
FocusCycle == <<cpuTableFocus, diskTableFocus, netTableFocus>>
C8_TabCyclesFocus ==
  /\ focusedTable \in {cpuTableFocus, diskTableFocus, netTableFocus}
  /\ focusedTable = FocusCycle[(tabs % 3) + 1]
C8_ThreeTabsBack == tabs = 3 /\ focusedTable = cpuTableFocus /\ program = "running"

\* C9: exactly one of the CPU, Disk and Network tables is focused, the one
\* focusedTable names (CPU before any tab key); the other two are blurred.
C9_OneTableFocused ==
  /\ cpuTable.focus <=> (focusedTable = cpuTableFocus)
  /\ diskTable.focus <=> (focusedTable = diskTableFocus)
  /\ netTable.focus <=> (focusedTable = netTableFocus)
  /\ Cardinality({t \in {"cpu", "disk", "net"} :
       CASE t = "cpu" -> cpuTable.focus [] t = "disk" -> diskTable.focus
         [] OTHER -> netTable.focus}) = 1
  /\ tabs = 0 => focusedTable = cpuTableFocus
C9_FocusMoved ==
  tabs = 2 /\ focusedTable = netTableFocus /\ netTable.focus
  /\ ~cpuTable.focus /\ ~diskTable.focus

\* C10: currentView goes from dashboard to network detail only in a step that
\* handles enter with the focus on the Network table and a selected row, and
\* from network detail to dashboard only in a step that handles esc; no other
\* step changes it.
C10_ViewChangesOnlyByEnterEsc ==
  [][/\ (currentView = dashboardView /\ currentView' = networkDetailView) =>
          /\ KeyEnter
          /\ focusedTable = netTableFocus
          /\ Len(SelectedRow(netTable)) > 0
     /\ (currentView = networkDetailView /\ currentView' = dashboardView) => KeyEsc
     /\ currentView' # currentView =>
          {currentView, currentView'} = {dashboardView, networkDetailView}]_vars
C10_DetailOpenedAndClosed ==
  currentView = dashboardView /\ selectedIface # "" /\ program = "running"

\* C11: a step that takes the dashboard to the detail view sets selectedIface
\* to the first cell of the row the Network table had selected, and
\* selectedIface changes in no other step.
C11_EnterCapturesSelectedRow ==
  [][/\ (currentView = dashboardView /\ currentView' = networkDetailView) =>
          /\ Len(SelectedRow(netTable)) > 0
          /\ selectedIface' = netTable.rows[netTable.cursor + 1][1]
     /\ selectedIface' # selectedIface =>
          /\ KeyEnter
          /\ currentView = dashboardView /\ currentView' = networkDetailView]_vars
C11_SecondRowCaptured ==
  /\ currentView = networkDetailView /\ netTable.cursor = 1
  /\ Len(netTable.rows) = 2 /\ selectedIface = netTable.rows[2][1]
  /\ selectedIface = "eth0"

\* C12: while the program runs exactly one tick timer is pending: Init arms
\* one, handling a tick arms exactly one in place of the one delivered, and
\* nothing else arms or drops one, whatever adapters fail and whichever view
\* is shown.
C12_OneTickPending == program = "running" => timers = 1
C12_TickedWithFailureInDetail ==
  /\ program = "running" /\ lastUpdate = 2 /\ timers = 1
  /\ currentView = networkDetailView
  /\ \E c \in closures : c.failed # {}

\* C13: the step that handles a tick stores no adapter result and rebuilds no
\* table itself: the snapshot fields, the two maps and the tables are the
\* same after it as before.
C13_TickStepFetchesNothing ==
  [][lastUpdate' # lastUpdate =>
       fields' = fields /\ maps' = maps /\ tables' = tables]_vars

\* C14: the step that handles a tick puts one more probe of every kind and
\* host in flight, whatever is still in flight and whatever the refresh
\* does; a probe leaves only one at a time, in the step that handles its own
\* result message (or when the program ends).
C14_TickLaunchesEveryProbe ==
  [][/\ lastUpdate' # lastUpdate =>
          \A p \in Probes : inflight'[p] = inflight[p] + 1
     /\ \A p \in Probes :
          inflight'[p] < inflight[p] =>
            \/ program' # "running"
            \/ /\ inflight'[p] = inflight[p] - 1
               /\ lastUpdate' = lastUpdate
               /\ \E st \in BOOLEAN, ifs \in InterfaceReadings :
                    IF p.kind = "dns" THEN DnsCheckMsg(p.host, st, ifs)
                    ELSE PingCheckMsg(p.host, st, ifs)]_vars
C14_ProbesOverlap ==
  /\ program = "running" /\ lastUpdate = 1 /\ closures # {}
  /\ \A p \in Probes : inflight[p] = 2

\* C15: from every state of the running program a resize is handled, and
\* every resize step sets width and height to the size the message carries
\* and leaves focus, view, selected interface, snapshot, health checks and
\* tables as they were; it hands no command to the runtime.
C15_ResizeChangesGeometryOnly ==
  \A ws \in WindowSizes :
    /\ program = "running" => ENABLED WindowSizeMsg(ws[1], ws[2])
    /\ ~ENABLED (/\ WindowSizeMsg(ws[1], ws[2])
                 /\ ~(/\ width' = ws[1] /\ height' = ws[2]
                      /\ UNCHANGED <<viewState, fields, maps, statusChecks,
                                     lastUpdate, tables, runtime>>))
C15_ResizedInDetailView ==
  /\ width = 100 /\ height = 30 /\ focusedTable = netTableFocus
  /\ currentView = networkDetailView /\ selectedIface # ""
  /\ closures # {} /\ program = "running"

\* C16: in every state of the running program, whatever the focus, the view
\* and the pending refresh, "q" and "ctrl+c" are handled, and every step that
\* handles one ends the program with the model as it was.
C16_QuitAlwaysHonoured ==
  \A k \in {"q", "ctrl+c"} :
    /\ program = "running" => ENABLED KeyQuit(k)
    /\ ~ENABLED (/\ KeyQuit(k)
                 /\ ~(/\ program' = "quit"
                      /\ UNCHANGED <<fields, maps, statusChecks, geometry,
                                     lastUpdate, tables, viewState>>))
C16_QuitFromDetailView ==
  /\ program = "quit" /\ currentView = networkDetailView
  /\ focusedTable = netTableFocus /\ lastUpdate > 0

\* C17: a navigation key handled in dashboard view goes to the table
\* focusedTable names and to no other: the other tables, focus, view,
\* snapshot and runtime are unchanged; handled in detail view it changes
\* nothing.
C17_NavKeyToFocusedTableOnly ==
  \A k \in NavKeys :
    /\ program = "running" => ENABLED KeyNav(k)
    /\ ~ENABLED
         (/\ KeyNav(k)
          /\ ~(/\ UNCHANGED <<fields, maps, statusChecks, geometry, lastUpdate,
                               viewState, runtime, memTable, statusTable>>
               /\ currentView = dashboardView =>
                    /\ cpuTable' = IF focusedTable = cpuTableFocus
                                     THEN TableUpdate(cpuTable, k) ELSE cpuTable
                    /\ diskTable' = IF focusedTable = diskTableFocus
                                      THEN TableUpdate(diskTable, k) ELSE diskTable
                    /\ netTable' = IF focusedTable = netTableFocus
                                     THEN TableUpdate(netTable, k) ELSE netTable
               /\ currentView # dashboardView => tables' = tables))
C17_CursorMovedInNetTable ==
  /\ currentView = dashboardView /\ focusedTable = netTableFocus
  /\ Len(netTable.rows) = 2 /\ netTable.cursor = 1 /\ selectedIface = ""

\* C18: when the dashboard is drawn, below a width of two minimum columns no
\* two sections other than CPU and Memory stand side by side, from that width
\* on some do, and CPU and Memory share a row in both cases.
Sections(l) ==
  {s \in {"cpu", "mem", "disk", "net", "status"} :
     \E i \in 1..Len(l.rows) : \E j \in 1..Len(l.rows[i]) :
       s \in Range(l.rows[i][j])}
Place(l, s) ==
  CHOOSE ij \in (1..Len(l.rows)) \X (1..3) :
    ij[2] <= Len(l.rows[ij[1]]) /\ s \in Range(l.rows[ij[1]][ij[2]])
SideBySide(l, a, b) ==
  Place(l, a)[1] = Place(l, b)[1] /\ Place(l, a)[2] # Place(l, b)[2]
LayoutFollowsWidth(l, w) ==
  l.kind = "dashboard" =>
    LET others == {p \in Sections(l) \X Sections(l) :
                     p[1] # p[2] /\ {p[1], p[2]} # {"cpu", "mem"}} IN
    /\ w < 170 => \A p \in others : ~SideBySide(l, p[1], p[2])
    /\ w >= 170 => \E p \in others : SideBySide(l, p[1], p[2])
    /\ Place(l, "cpu")[1] = Place(l, "mem")[1]
C18_LayoutFollowsWidth == LayoutFollowsWidth(View, width)

\* C19: the disk table holds one row for every partition that has an entry
\* in diskUsage and no other row, each row showing that entry's percentage
\* to one decimal place, and the rows are in non-increasing order of the
\* percentage shown.
C19_DiskRowsSortedByUsage ==
  LET rows == diskTable.rows
      shown == {mp \in Range(diskPartitions) : mp \in DOMAIN diskUsage} IN
  /\ Len(rows) = Cardinality(shown)
  /\ {rows[i][2] : i \in 1..Len(rows)} = shown
  /\ \A i \in 1..Len(rows) : rows[i][5] = Fmt1(diskUsage[rows[i][2]].UsedPercent)
  /\ \A i, j \in 1..Len(rows) : i < j => rows[i][5] >= rows[j][5]
C19_SortReordered ==
  /\ diskPartitions = <<"/", "/mnt/broken">>
  /\ Len(diskTable.rows) = 2
  /\ diskTable.rows[1][2] = "/mnt/broken" /\ diskTable.rows[1][5] = 900
  /\ diskTable.rows[2][2] = "/" /\ diskTable.rows[2][5] = 500

\* C20: for each of the five commands: without --watch the show function
\* runs once and RunE returns its result; with --watch a successful run is
\* followed by the sleep and another run and RunE never returns nil; in both
\* modes the first error is returned at once and nothing runs after RunE has
\* returned.
C20_WatchLoop ==
  /\ command \in Commands
  /\ (pc = "done") <=> (result # Nil)
  /\ ~watchOutput => runs <= 1
  /\ result = Ptr("nil") => ~watchOutput /\ runs = 1 /\ successes = 1
  /\ result = Ptr("error") => runs = successes + 1
  /\ result = Nil => runs = successes
  /\ (watchOutput /\ pc = "check") => ENABLED (WatchCheck /\ pc' = "sleep")
  /\ pc = "sleep" => ENABLED (WatchSleep /\ pc' = "show")
  /\ pc = "done" => ~ENABLED WatchNext
C20_ErrorOnThirdWatchRun ==
  /\ watchOutput /\ runs = 3 /\ successes = 2
  /\ pc = "done" /\ result = Ptr("error")

\* did the executed subcommand fail fatally
FailedFatally == ~env.level \/ env.fatal \in 1..runs

\* C21: once the process has exited: if the subcommand failed fatally the
\* exit code is non-zero and an error was printed, and the exit code is zero
\* only if it succeeded; for every subcommand, the dashboard included.
C21_ExitCodeTellsFailure ==
  exitCode # Nil =>
    /\ FailedFatally => exitCode # Ptr(0) /\ stderr # <<>>
    /\ exitCode = Ptr(0) => ~FailedFatally

\* C22: every subcommand honours the three flags: what it prints is JSON
\* exactly with --json and unstyled exactly with --raw, and with --watch a
\* successful run is never the last one.
C22_EveryFlagHonoured ==
  /\ \A i \in 1..successes :
       /\ stdout[i].encoding = "json" <=> outputJSON
       /\ stdout[i].styled <=> ~rawOutput
  /\ (watchOutput /\ successes > 0) => result # Ptr("nil")

\* C23: when the kubeconfig cannot be loaded, the adapter is switched off
\* without an error: RunE returns no error, the cluster is never contacted
\* and the kubeconfig is not tried again.
C23_NoKubeconfigIsNoError ==
  (command = "k8s" /\ "kubeconfig" \in env /\ runs > 0) =>
    /\ result \in {Nil, Ptr("nil")}
    /\ \A j \in DOMAIN calls : calls[j] \notin {"nodes", "namespaces", "pods"}
    /\ runs = 1

\* the steps the claim names, in its order; the steps called that are among
\* them
ClaimedK8sOrder == <<"kubeconfig", "client", "nodes", "namespaces", "pods">>
IsClaimed(step) == \E i \in DOMAIN ClaimedK8sOrder : ClaimedK8sOrder[i] = step
ClaimedCalls == SelectSeq(calls, IsClaimed)

\* C25: showK8sInfo calls kubeconfig loading, client creation and the node,
\* namespace and pod listings in that order; the first step that fails
\* returns its error wrapped, no step is called after it and the run prints
\* nothing; a run prints only after all five succeeded.
C25_K8sAllOrNothing ==
  /\ ClaimedCalls = SubSeq(ClaimedK8sOrder, 1, Len(ClaimedCalls))
  /\ \A j \in 1..(Len(calls) - 1) : calls[j] \notin env
  /\ Len(stdout) = successes
  /\ pc = "check" =>
       /\ Len(ClaimedCalls) = 5
       /\ \A j \in DOMAIN ClaimedCalls : ClaimedCalls[j] \notin env
  /\ (calls # <<>> /\ IsClaimed(calls[Len(calls)])
      /\ calls[Len(calls)] \in env) =>
       /\ pc = "done"
       /\ result = Ptr(K8sWrap[calls[Len(calls)]])
       /\ K8sWrap[calls[Len(calls)]] # "error"
       /\ successes = runs - 1
       /\ ~ENABLED K8sNext
C25_PodListingFails ==
  /\ env = {"pods", "marshal"} /\ watchOutput /\ runs = 1
  /\ calls = ClaimedK8sOrder /\ pc = "done" /\ stdout = <<>>
  /\ result = Ptr("failed to get pods")

\* the mount points of the lines about usage, in the order printed
UsageOutput(lines) ==
  LET u == SelectSeq(lines, LAMBDA l : l.kind = "usage")
  IN  [i \in 1..Len(u) |-> u[i].of]

\* C24: after the first run of the disk command with the partition list and
\* the IO counters readable: the run did not fail, and the usage output
\* names exactly the partitions whose usage was read, in partition order.
C24_FailedUsageLeftOut ==
  (env.partitions /\ env.io /\ runs = 1) =>
    /\ result \in {Nil, Ptr("nil")}
    /\ UsageOutput(stdout) = UsageStats(DiskPartitions, env.usage)

\* what Update returns: the model, and through runtime the command
UpdateResult == <<fields, maps, statusChecks, geometry, lastUpdate, tables,
                  viewState, runtime>>

\* C26: esc in dashboard view, enter when the focus is not on the Network
\* table or the Network table has no selected row or the detail view is
\* shown, tab in detail view, and a key Update does not handle: each is
\* accepted, leaves the whole model as it was and starts no command.
C26_IgnoredKeysChangeNothing ==
  /\ program = "running" =>
       /\ ENABLED KeyEsc /\ ENABLED KeyEnter
       /\ tabs < MaxTabs => ENABLED KeyTab
       /\ \A k \in Keys \ ({"q", "ctrl+c", "esc", "enter", "tab"} \cup NavKeys) :
            ENABLED KeyOther(k)
  /\ ~ENABLED (/\ KeyEsc /\ currentView = dashboardView
               /\ UpdateResult' # UpdateResult)
  /\ ~ENABLED (/\ KeyEnter
               /\ \/ focusedTable # netTableFocus
                  \/ Len(SelectedRow(netTable)) = 0
                  \/ currentView = networkDetailView
               /\ UpdateResult' # UpdateResult)
  /\ ~ENABLED (/\ KeyTab /\ currentView = networkDetailView
               /\ UpdateResult' # UpdateResult)
  /\ \A k \in Keys \ ({"q", "ctrl+c", "esc", "enter", "tab"} \cup NavKeys) :
       ~ENABLED (KeyOther(k) /\ UpdateResult' # UpdateResult)
C26_EnterIgnoredOnDiskFocus ==
  /\ program = "running" /\ currentView = dashboardView
  /\ focusedTable = diskTableFocus /\ Len(SelectedRow(netTable)) > 0
  /\ selectedIface = "" /\ tabs = 1
  /\ ENABLED (KeyEnter /\ UpdateResult' = UpdateResult)

\* C27: while the detail view is shown the focus is on the Network table,
\* and esc in the detail view gives the dashboard with the focus still on
\* the Network table.
C27_DetailViewKeepsNetworkFocus ==
  /\ currentView = networkDetailView => focusedTable = netTableFocus
  /\ (program = "running" /\ currentView = networkDetailView) =>
       ENABLED (KeyEsc /\ currentView' = dashboardView)
  /\ ~ENABLED (/\ KeyEsc /\ currentView = networkDetailView
               /\ ~(/\ currentView' = dashboardView
                    /\ focusedTable' = netTableFocus))
C27_BackFromDetailView ==
  /\ program = "running" /\ currentView = dashboardView
  /\ selectedIface = "eth0" /\ focusedTable = netTableFocus
  /\ netTable.focus /\ tabs = 2

\* C28: while the detail view is shown selectedIface is a key of netStats
\* (the view never renders "Interface not found"): every Network table row
\* names a key of netStats, and no step removes a key from netStats.
C28_SelectedIfaceHasStats ==
  /\ currentView = networkDetailView => selectedIface \in DOMAIN netStats
  /\ \A i \in DOMAIN netTable.rows : netTable.rows[i][1] \in DOMAIN netStats
  /\ ~ENABLED (Next /\ ~(DOMAIN netStats \subseteq DOMAIN netStats'))
C28_DetailViewAcrossRefresh ==
  /\ currentView = networkDetailView /\ selectedIface = "eth0"
  /\ DOMAIN netStats = {"all", "eth0"} /\ lastUpdate = 2
  /\ \E c \in closures : c.pc = "netw"

\* C29: after the first run of the table-mode process command on a list of
\* n processes (n >= 0) that could be read: the run did not fail, and it
\* listed min(20, n) processes, in non-increasing CPU order, none with less
\* CPU than a process it left out.
C29_TopProcessesAnyLength ==
  (env.ok /\ runs = 1) =>
    /\ result \in {Nil, Ptr("nil")}
    /\ Len(stdout) = 1 + Min(TopProcesses, Len(env.processes))
    /\ \A i \in 2..Len(stdout) :
         /\ \E k \in DOMAIN env.processes : env.processes[k] = stdout[i]
         /\ \A j \in 2..Len(stdout) :
              /\ i < j => stdout[i].CPU >= stdout[j].CPU
              /\ i # j => stdout[i].Pid # stdout[j].Pid
         /\ \A k \in DOMAIN env.processes :
              \/ \E j \in 2..Len(stdout) : stdout[j] = env.processes[k]
              \/ env.processes[k].CPU <= stdout[i].CPU

\* C30: whether a run of the network command ends in an error depends on
\* what the collaborators return and not on --raw: the first run ends in an
\* error exactly if a run with the other setting of the flag and the same
\* collaborator results would; and an address-list failure alone is fatal
\* in neither mode.
C30_OutcomeIndependentOfRaw ==
  runs = 1 =>
    /\ (result \in {Nil, Ptr("nil")}) <=>
         (showNetworkInfo(~rawOutput, env).err = "nil")
    /\ (env.links /\ env.routes) => result \in {Nil, Ptr("nil")}

====
